---- MODULE Spec2Model ----
(***************************************************************************)
(* Model of src/server.js: the Freepik proxy.  One client request to       *)
(* POST /api/freepik/generate is handled by the route handler (lines       *)
(* 75-126), which validates, submits one POST to the provider and, for an  *)
(* asynchronous task, runs pollFreepikTask (lines 33-73).  A step of the   *)
(* model is the code between two awaits.                                   *)
(***************************************************************************)
EXTENDS Integers, Sequences, FiniteSets, TLC

(***************************************************************************)
(* Bounds of the model.                                                    *)
(***************************************************************************)
\* maxAttempts of pollFreepikTask (a parameter; the handler passes the default)
MaxAttempts == 3
\* number of client requests the server is followed through
MaxRequests == 2

(***************************************************************************)
(* JavaScript values.  Every scalar is a string of the model: the two      *)
(* non-values, one truthy value that is not a string, and real strings.    *)
(***************************************************************************)
Undef == "<undefined>"
Null == "<null>"
NumVal == "<number 7>"
EmptyStr == ""
UrlA == "https://x/a.png"
UrlB == "https://x/b.png"
UrlC == "https://x/c.png"

\* JS truthiness of a scalar
Truthy(v) == v \notin {Undef, Null, EmptyStr}
\* typeof v === 'string'
IsString(v) == v \notin {Undef, Null, NumVal}
\* a || b
Or(a, b) == IF Truthy(a) THEN a ELSE b
\* r.ok of a fetch Response
HttpOk(status) == status >= 200 /\ status <= 299

(***************************************************************************)
(* The element generated[0] of a status payload: null, a string, or an     *)
(* object with the four fields the code reads.                             *)
(***************************************************************************)
ElemNull == [t |-> "null", s |-> Undef, url |-> Undef, image_url |-> Undef,
             imageUrl |-> Undef, src |-> Undef]
ElemStr(x) == [t |-> "string", s |-> x, url |-> Undef, image_url |-> Undef,
               imageUrl |-> Undef, src |-> Undef]
ElemObj(u, i, c, s) == [t |-> "object", s |-> Undef, url |-> u, image_url |-> i,
                        imageUrl |-> c, src |-> s]

\* data.data of a status payload
PollData(st, hg, g, u, i) ==
    [status |-> st, hasGenerated |-> hg, generated |-> g, url |-> u, image_url |-> i]
NoData == PollData(Undef, FALSE, <<>>, Undef, Undef)

\* outcomes of a block of code: fall through, return a value, throw a message
Next0 == [kind |-> "next", v |-> Undef]
Return(v) == [kind |-> "return", v |-> v]
Throw(m) == [kind |-> "throw", v |-> m]

TypeErrorNull == "Cannot read properties of null (reading 'url')"
TypeErrorSubstring == "imageUrl.substring is not a function"

\* the mutant of ExtractArtifact: image_url is preferred to url
ExtractArtifactSwapped(d) ==
    IF d.hasGenerated /\ Len(d.generated) > 0
    THEN LET image == d.generated[1]
             imageUrl == Or(Or(Or(Or(image.image_url, image.url), image.imageUrl),
                               image.src),
                            IF image.t = "string" THEN image.s ELSE Null)
         IN  IF image.t = "null" THEN Throw(TypeErrorNull)
             ELSE IF Truthy(imageUrl) /\ ~IsString(imageUrl)
                  THEN Throw(TypeErrorSubstring)
                  ELSE Return(imageUrl)
    ELSE Return(Or(Or(d.image_url, d.url), Null))

\* lines 56-62: the artifact of a terminal-success payload
ExtractArtifact(d) ==
    IF d.hasGenerated /\ Len(d.generated) > 0
    THEN LET image == d.generated[1]
             imageUrl == Or(Or(Or(Or(image.url, image.image_url), image.imageUrl),
                               image.src),
                            IF image.t = "string" THEN image.s ELSE Null)
         IN  IF image.t = "null" THEN Throw(TypeErrorNull)
             ELSE IF Truthy(imageUrl) /\ ~IsString(imageUrl)
                  THEN Throw(TypeErrorSubstring)
                  ELSE Return(imageUrl)
    ELSE Return(Or(Or(d.url, d.image_url), Null))

(***************************************************************************)
(* A response to a status GET: the fetch rejects (kind "neterr") or        *)
(* resolves with an HTTP status; the body follows.  r.json() rejects when  *)
(* the body stream fails (kind "bodyerr") or the body is no JSON ("bad"),  *)
(* or yields null ("null"), an object without a data field ("nodata"), or  *)
(* an object with one ("data").                                            *)
(***************************************************************************)
PollResp(k, st, j, d) == [kind |-> k, status |-> st, json |-> j, data |-> d]
NoResp == PollResp("none", 0, "bad", NoData)

\* lines 100, 112: the message of the rejection of resp.text() / resp.json()
\* when the body stream fails before the body is complete
BodyFailedMsg == "terminated"

\* lines 49, 112: the message of the SyntaxError of resp.json() on a body
\* that is empty, is one of the texts the parser names in full, or whose
\* first character is a printable one that cannot start a JSON text.  In the
\* last case a body shorter than JsonContextMin is quoted in full, of a longer
\* one the first JsonContext characters are.
JsonContext == 10
JsonContextMin == 21
JsonSpecialStrings == {"NaN", "Infinity", "undefined", "[object Object]"}
JsonErrorMsg(text) ==
    IF text = "" THEN "Unexpected end of JSON input"
    ELSE IF text \in JsonSpecialStrings THEN "\"" \o text \o "\" is not valid JSON"
    ELSE "Unexpected token '" \o SubSeq(text, 1, 1) \o "', \""
         \o (IF Len(text) < JsonContextMin
             THEN text \o "\""
             ELSE SubSeq(text, 1, JsonContext) \o "\"...")
         \o " is not valid JSON"

\* bodies of a 2xx response that are not JSON
NotJson == "<html>not json</html>"
BadBodies == {"", "<", NotJson, "undefined", "NaN"}

TaskFailed(status) == "Task failed: " \o status
PollTimeoutMsg == "Freepik polling timeout"

\* the mutant of TryBody: every parseable payload sets the pin again
TryBodyRepins(r, w, url) ==
    IF r.kind = "neterr" THEN [out |-> Throw("fetch failed"), working |-> w]
    ELSE IF ~HttpOk(r.status) THEN [out |-> Next0, working |-> w]
    ELSE IF r.kind = "bodyerr" THEN [out |-> Throw(BodyFailedMsg), working |-> w]
    ELSE IF r.json = "bad"
         THEN [out |-> Throw(JsonErrorMsg(NotJson)), working |-> w]
    ELSE IF r.json # "data" THEN [out |-> Next0, working |-> w]
    ELSE LET status == r.data.status
         IN  IF status \in {"COMPLETED", "SUCCESS"}
             THEN [out |-> ExtractArtifact(r.data), working |-> url]
             ELSE IF status \in {"FAILED", "ERROR"}
                  THEN [out |-> Throw(TaskFailed(status)), working |-> url]
                  ELSE [out |-> Next0, working |-> url]

\* lines 44-65: the body of the try block for one candidate; w is `working`
TryBody(r, w, url) ==
    IF r.kind = "neterr" THEN [out |-> Throw("fetch failed"), working |-> w]
    ELSE IF ~HttpOk(r.status) THEN [out |-> Next0, working |-> w]
    ELSE IF r.kind = "bodyerr" THEN [out |-> Throw(BodyFailedMsg), working |-> w]
    ELSE IF r.json = "bad"
         THEN [out |-> Throw(JsonErrorMsg(NotJson)), working |-> w]
    ELSE IF r.json # "data" THEN [out |-> Next0, working |-> w]
    ELSE LET status == r.data.status
             w2 == IF ~Truthy(w) THEN url ELSE w
         IN  IF status \in {"COMPLETED", "SUCCESS"}
             THEN [out |-> ExtractArtifact(r.data), working |-> w2]
             ELSE IF status \in {"FAILED", "ERROR"}
                  THEN [out |-> Throw(TaskFailed(status)), working |-> w2]
                  ELSE [out |-> Next0, working |-> w2]

\* the mutant of TryCatch: there is no catch around the candidate
TryNoCatch(r, w, url) == TryBody(r, w, url)

\* lines 43-66: try { ... } catch (_) { /* try next */ }
TryCatch(r, w, url) ==
    LET b == TryBody(r, w, url)
    IN  IF b.out.kind = "throw" THEN [out |-> Next0, working |-> b.working] ELSE b

\* lines 31, 34-38: the three status endpoints of a task
FREEPIK_API_URL == "https://api.freepik.com/v1/ai/mystic"
Endpoints(taskId) ==
    << FREEPIK_API_URL \o "/" \o taskId,
       FREEPIK_API_URL \o "?task_id=" \o taskId,
       "https://api.freepik.com/v1/ai/tasks/" \o taskId >>

\* the mutant of Candidates: the pinned candidate is not used
CandidatesUnpinned(w, taskId) == Endpoints(taskId)

\* line 41: const candidates = working ? [working] : endpoints
Candidates(w, taskId) == IF Truthy(w) THEN <<w>> ELSE Endpoints(taskId)

\* the mutant of LoopContinues: the loop stops one attempt early
LoopStopsEarly(a) == a < MaxAttempts - 1

\* line 40: attempt < maxAttempts
LoopContinues(a) == a < MaxAttempts

(***************************************************************************)
(* The route handler POST /api/freepik/generate, lines 75-126.             *)
(***************************************************************************)
\* a client response: res.status(code).json(body)
Response(code, hasUrl, url, error, quota) ==
    [code |-> code, hasUrl |-> hasUrl, url |-> url, error |-> error,
     quota_exceeded |-> quota]
NoResponse == Response(0, FALSE, Undef, Undef, FALSE)
\* res.json({ url }): status 200
UrlResponse(u) == Response(200, TRUE, u, Undef, FALSE)
ErrorResponse(code, msg) == Response(code, FALSE, Undef, msg, FALSE)

KeyMissingMsg == "Freepik API key missing on server"
PromptRequiredMsg == "prompt required"
QuotaMsg == "Freepik API quota exceeded (free trial limit reached). Upgrade your plan or use a new API key."
AbortMsg == "This operation was aborted"
FetchFailedMsg == "fetch failed"
\* the mutant of HandlerCatch: the error payload also carries a url
HandlerCatchWithUrl(msg) == Response(500, TRUE, Null, Or(msg, "Freepik proxy failure"), FALSE)

\* lines 122-125: catch (e) { res.status(500).json({ error: e.message || ... }) }
HandlerCatch(msg) == ErrorResponse(500, Or(msg, "Freepik proxy failure"))

\* a request body: req.body || {} with the two fields the handler reads
Body(p, a) == [prompt |-> p, aspect_ratio |-> a]

\* the mutant of Validate: the prompt check is skipped
ValidateNoPrompt(key, body) ==
    IF ~Truthy(key) THEN [kind |-> "respond", response |-> ErrorResponse(400, KeyMissingMsg)]
    ELSE IF Truthy(body.prompt) /\ ~IsString(body.prompt)
         THEN [kind |-> "respond",
               response |-> HandlerCatch("prompt.substring is not a function")]
         ELSE [kind |-> "post", response |-> NoResponse]

\* the mutant of Validate: the credential check is skipped
ValidateNoKey(key, body) ==
    IF Truthy(body.prompt) /\ ~IsString(body.prompt)
    THEN [kind |-> "respond",
          response |-> HandlerCatch("prompt.substring is not a function")]
    ELSE IF ~Truthy(body.prompt)
         THEN [kind |-> "respond", response |-> ErrorResponse(400, PromptRequiredMsg)]
         ELSE [kind |-> "post", response |-> NoResponse]

\* lines 77-82: the checks before the submission
Validate(key, body) ==
    IF ~Truthy(key) THEN [kind |-> "respond", response |-> ErrorResponse(400, KeyMissingMsg)]
    ELSE IF Truthy(body.prompt) /\ ~IsString(body.prompt)
         THEN [kind |-> "respond",
               response |-> HandlerCatch("prompt.substring is not a function")]
    ELSE IF ~Truthy(body.prompt)
         THEN [kind |-> "respond", response |-> ErrorResponse(400, PromptRequiredMsg)]
         ELSE [kind |-> "post", response |-> NoResponse]

(***************************************************************************)
(* A response to the submission POST: the fetch rejects ("neterr") or      *)
(* resolves with a status; the body follows, unless its stream fails       *)
(* ("bodyerr").  text is the raw body, of a non-2xx response and of a 2xx  *)
(* response that is no JSON; json and result are what resp.json() gives on *)
(* a 2xx status: a rejection ("bad"), null ("null") or an object ("obj").  *)
(***************************************************************************)
SubResult(hd, tid, st, du, di, u, i) ==
    [hasData |-> hd, task_id |-> tid, status |-> st, durl |-> du,
     dimage_url |-> di, url |-> u, image_url |-> i]
NoResult == SubResult(FALSE, Undef, Undef, Undef, Undef, Undef, Undef)
SubResp(k, st, text, j, res) ==
    [kind |-> k, status |-> st, text |-> text, json |-> j, result |-> res]
NoSubResp == SubResp("none", 0, "", "bad", NoResult)

\* result?.data?.f
DataField(sr, f) ==
    IF sr.json = "obj" /\ sr.result.hasData THEN sr.result[f] ELSE Undef
\* result?.f
TopField(sr, f) == IF sr.json = "obj" THEN sr.result[f] ELSE Undef

\* line 101: text.substring(0, 200), the part of the body that is logged
LogLimit == 200
Substring(text, n) == IF Len(text) > n THEN SubSeq(text, 1, n) ELSE text

\* the mutant of ProviderErrorMsg: the payload carries the logged part only
ProviderErrorMsgLogged(status, text) ==
    "Freepik error " \o ToString(status) \o ": " \o Substring(text, LogLimit)

\* line 110: `Freepik error ${resp.status}: ${text}`
ProviderErrorMsg(status, text) == "Freepik error " \o ToString(status) \o ": " \o text

\* the mutant of Direct: without the final `|| null`
DirectNoNull(sr) ==
    Or(Or(DataField(sr, "durl"), DataField(sr, "dimage_url")), TopField(sr, "url"))

\* line 119: result?.data?.url || result?.data?.image_url || result?.url || null
Direct(sr) ==
    Or(Or(Or(DataField(sr, "durl"), DataField(sr, "dimage_url")), TopField(sr, "url")), Null)

\* the mutant of ClassifySubmit: the poller is skipped, the task id is returned
ClassifySubmitNoPoll(sr) ==
    IF sr.kind = "neterr"
    THEN [kind |-> "respond", response |-> HandlerCatch(FetchFailedMsg), taskId |-> Undef]
    ELSE IF sr.kind = "bodyerr"
    THEN [kind |-> "respond", response |-> HandlerCatch(BodyFailedMsg), taskId |-> Undef]
    ELSE IF ~HttpOk(sr.status)
    THEN IF sr.status = 429
         THEN [kind |-> "respond", taskId |-> Undef,
               response |-> Response(429, FALSE, Undef, QuotaMsg, TRUE)]
         ELSE [kind |-> "respond", taskId |-> Undef,
               response |-> ErrorResponse(502, ProviderErrorMsg(sr.status, sr.text))]
    ELSE IF sr.json = "bad"
    THEN [kind |-> "respond", response |-> HandlerCatch(JsonErrorMsg(sr.text)), taskId |-> Undef]
    ELSE LET direct == Direct(sr)
         IN  IF Truthy(direct) /\ ~IsString(direct)
             THEN [kind |-> "respond", taskId |-> Undef,
                   response |-> HandlerCatch("direct.substring is not a function")]
             ELSE [kind |-> "respond", taskId |-> Undef, response |-> UrlResponse(direct)]

\* lines 87-121: what the handler does with the submission's outcome
ClassifySubmit(sr) ==
    IF sr.kind = "neterr"
    THEN [kind |-> "respond", response |-> HandlerCatch(FetchFailedMsg), taskId |-> Undef]
    ELSE IF sr.kind = "bodyerr"
    THEN [kind |-> "respond", response |-> HandlerCatch(BodyFailedMsg), taskId |-> Undef]
    ELSE IF ~HttpOk(sr.status)
    THEN IF sr.status = 429
         THEN [kind |-> "respond", taskId |-> Undef,
               response |-> Response(429, FALSE, Undef, QuotaMsg, TRUE)]
         ELSE [kind |-> "respond", taskId |-> Undef,
               response |-> ErrorResponse(502, ProviderErrorMsg(sr.status, sr.text))]
    ELSE IF sr.json = "bad"
    THEN [kind |-> "respond", response |-> HandlerCatch(JsonErrorMsg(sr.text)), taskId |-> Undef]
    ELSE IF Truthy(DataField(sr, "task_id")) /\ DataField(sr, "status") = "CREATED"
    THEN [kind |-> "poll", response |-> NoResponse, taskId |-> DataField(sr, "task_id")]
    ELSE LET direct == Direct(sr)
         IN  IF Truthy(direct) /\ ~IsString(direct)
             THEN [kind |-> "respond", taskId |-> Undef,
                   response |-> HandlerCatch("direct.substring is not a function")]
             ELSE [kind |-> "respond", taskId |-> Undef, response |-> UrlResponse(direct)]

(***************************************************************************)
(* The inputs: what the client and the provider may send.                  *)
(***************************************************************************)
Weight(e) == Cardinality({f \in {"url", "image_url", "imageUrl", "src"} : e[f] # Undef})

\* every generated[0] over the field values V and the string elements S
Elems(V, S) ==
    {ElemNull} \cup {ElemStr(x) : x \in S}
    \cup {ElemObj(u, i, c, s) : u \in V, i \in V, c \in V, s \in V}

\* every payload with a status of St
Datas(St, V, S) ==
    {PollData(st, FALSE, <<>>, u, i) : st \in St, u \in V, i \in V}
    \cup {PollData(st, TRUE, <<>>, u, i) : st \in St, u \in V, i \in V}
    \cup {PollData(st, TRUE, <<e>>, u, i) : st \in St, e \in Elems(V, S), u \in V, i \in V}

SuccessStatuses == {"COMPLETED", "SUCCESS"}
FailureStatuses == {"FAILED", "ERROR"}

\* payloads of the polling runs: a terminal success with at most one field of
\* the element set or a top-level field next to an element without any, the
\* two shapes whose extraction throws, and the statuses without an artifact
PollDatas ==
    {d \in Datas(SuccessStatuses, {Undef, UrlA}, {UrlC}) :
        /\ d.image_url = Undef \/ d.url = Undef
        /\ Len(d.generated) > 0 =>
              /\ d.image_url = Undef
              /\ Weight(d.generated[1]) + (IF d.url = Undef THEN 0 ELSE 1) <= 1}
    \cup {PollData(st, TRUE, <<ElemObj(NumVal, Undef, Undef, Undef)>>, Undef, Undef) :
            st \in SuccessStatuses}
    \cup {PollData(st, FALSE, <<>>, Undef, Undef) :
            st \in FailureStatuses \cup {Undef, "IN_PROGRESS"}}

PollResponses ==
    {PollResp("neterr", 0, "bad", NoData), PollResp("http", 404, "bad", NoData)}
    \cup {PollResp("http", 200, j, NoData) : j \in {"bad", "null", "nodata"}}
    \cup {PollResp("bodyerr", 200, "bad", NoData)}
    \cup {PollResp("http", 200, "data", d) : d \in PollDatas}

\* every payload shape of a terminal success, for the extraction alone
AllSuccessDatas ==
    Datas(SuccessStatuses, {Undef, EmptyStr, UrlA, UrlB, NumVal}, {EmptyStr, UrlC})

TaskIds == {"T1", "T2"}

\* a raw error body longer than the part that is logged
LongBody == "01234567890123456789012345678901234567890123456789012345678901234567890123456789012345678901234567890123456789012345678901234567890123456789012345678901234567890123456789012345678901234567890123456789<the tail of the body>"

\* bodies of a 2xx submission response: no data, data without a task handle,
\* and task handles (alone or next to an embedded url)
SubResults ==
    {SubResult(FALSE, Undef, Undef, Undef, Undef, u, i) :
        u \in {Undef, UrlC, NumVal}, i \in {Undef, UrlB}}
    \cup {SubResult(TRUE, Undef, st, du, di, u, Undef) :
            st \in {Undef, "CREATED", "COMPLETED"},
            du \in {Undef, UrlA}, di \in {Undef, UrlB}, u \in {Undef, UrlC}}
    \cup {SubResult(TRUE, tid, st, du, Undef, Undef, Undef) :
            tid \in TaskIds, st \in {Undef, "CREATED", "IN_PROGRESS"},
            du \in {Undef, UrlA}}

SubResponses ==
    {SubResp("neterr", 0, "", "bad", NoResult)}
    \cup {SubResp("http", st, t, "bad", NoResult) :
            st \in {429, 400, 500},
            t \in {"", "Too Many Requests", "{\"message\":\"x\"}", LongBody}}
    \cup {SubResp("bodyerr", st, "", "bad", NoResult) : st \in {429, 500, 200}}
    \cup {SubResp("http", 200, t, "bad", NoResult) : t \in BadBodies}
    \cup {SubResp("http", st, "", "null", NoResult) : st \in {200, 201}}
    \cup {SubResp("http", 200, "", "obj", r) : r \in SubResults}
    \cup {SubResp("http", 201, "", "obj",
                  SubResult(TRUE, "T1", "CREATED", Undef, Undef, Undef, Undef))}

Bodies == {Body(p, a) : p \in {Undef, EmptyStr, "a cat", NumVal}, a \in {Undef, "16:9"}}

ApiKeys == {Undef, EmptyStr, "fpk-secret"}

\* what the fetch of line 87 settles with, and the statuses it resolves with
SubmitRejections == {sr \in SubResponses : sr.kind = "neterr"}
SubmitStatuses == {sr.status : sr \in SubResponses \ SubmitRejections}

\* what the fetch of line 44 settles with when no body is read (it rejects
\* or the status is not 2xx), and the statuses whose body is read
PollFailures == {r \in PollResponses : r.kind = "neterr" \/ ~HttpOk(r.status)}
PollOkStatuses == {r.status : r \in PollResponses \ PollFailures}

(***************************************************************************)
(* The state.                                                              *)
(***************************************************************************)
VARIABLES
    apiKey,       \* process.env.FREEPIK_API_KEY
    served,       \* requests received so far
    pc,           \* where the handler of the current request is:
                  \* "idle" (none running), "post" (await fetch, line 87),
                  \* "body" (await resp.text() / resp.json(), lines 100, 112),
                  \* "fetch" (polling, await fetch, line 44), "pbody" (polling,
                  \* await r.json(), line 49), "sleep" (polling, line 69)
    req,          \* the body of the current request
    posts,        \* submission POSTs issued for the current request
    timer,        \* the 30 s abort timer is armed (lines 85, 97)
    aborted,      \* controller.signal.aborted: the timer has fired (lines 84-85)
    hdr,          \* the status of the response whose body is awaited, else 0
    subResp,      \* resp of line 87
    pollCalls,    \* calls of pollFreepikTask made for the current request
    taskId,       \* pollFreepikTask's taskId
    attempt,      \* its attempt
    working,      \* its working
    candidates,   \* its candidates of the current round
    ci,           \* the position of the for-of loop in candidates
    gets,         \* status GETs of the current request that were answered
    sleeps,       \* sleeps (line 69) completed for the current request
    lastUrl,      \* the url of the last status GET that was dealt with
    resp,         \* the response to it
    pinnedAt,     \* the attempt in which working was set, -1 before
    sawTerminal,  \* some status response of this session carried a terminal status
    pollOutcome,  \* how pollFreepikTask ended: Return(v), Throw(m), or Next0
    hs,           \* concurrent requests: the handler invocation of each (lines 75-126)
    frames,       \* concurrent requests: the activation records of pollFreepikTask
    actor,        \* concurrent requests: whose handler took the last step
    response,     \* the response sent to the client of the current request
    sent          \* the number of responses sent for the current request

vars == << apiKey, served, pc, req, posts, timer, aborted, hdr, subResp, pollCalls, taskId,
           attempt, working, candidates, ci, gets, sleeps, lastUrl, resp,
           pinnedAt, sawTerminal, pollOutcome, response, sent, hs, frames, actor >>

concVars == << hs, frames, actor >>

pollVars == << taskId, attempt, working, candidates, ci, gets, sleeps, lastUrl,
               resp, pinnedAt, sawTerminal, pollOutcome >>

(***************************************************************************)
(* Requests in flight at the same time.  Each call of the route handler    *)
(* and each call of pollFreepikTask has its own activation record: the     *)
(* handler's req, controller/timer and res, and the poller's taskId,       *)
(* attempt, working, candidates and loop position are locals (const/let).  *)
(* The module-level state is FREEPIK_API_URL and process.env only.         *)
(***************************************************************************)
Requests == {1, 2}

\* the mutant of FrameOf: working, attempt and the loop are module-level
FrameShared(i) == 1

\* lines 33, 39-42: the record holding the locals of request i's poller call
FrameOf(i) == i

\* lines 33-41: the poller's locals, before the call and at its start
NoFrame ==
    [taskId |-> Undef, attempt |-> 0, working |-> Null, candidates |-> << >>, ci |-> 1]
NewFrame(tid) ==
    [taskId |-> tid, attempt |-> 0, working |-> Null,
     candidates |-> Candidates(Null, tid), ci |-> 1]

\* what a request was given so far: its body, the answers to its own calls,
\* the firing of its own timer and the end of its own sleeps
LogEntry(k, body, sr, r) == [k |-> k, body |-> body, sr |-> sr, r |-> r]
LogBody(body) == LogEntry("body", body, NoSubResp, NoResp)
LogSub(sr) == LogEntry("submit", Body(Undef, Undef), sr, NoResp)
LogTimer == LogEntry("timer", Body(Undef, Undef), NoSubResp, NoResp)
LogPoll(r) == LogEntry("status", Body(Undef, Undef), NoSubResp, r)
LogSleep == LogEntry("sleep", Body(Undef, Undef), NoSubResp, NoResp)
LogStatus(k, st) ==
    LogEntry(k, Body(Undef, Undef), SubResp("status", st, "", "bad", NoResult), NoResp)

\* lines 75-85: a handler invocation: pc is "new" (not yet received), "post",
\* "body", "fetch", "pbody", "sleep" or "done"
NewHandler ==
    [pc |-> "new", timer |-> FALSE, hdr |-> 0, response |-> NoResponse, sent |-> 0,
     log |-> << >>]

\* the inputs of the concurrent runs
ConcBodies == {Body("a cat", Undef), Body(Undef, Undef)}
ConcSubResponses ==
    {SubResp("neterr", 0, "", "bad", NoResult),
     SubResp("http", 429, "", "bad", NoResult),
     SubResp("bodyerr", 429, "", "bad", NoResult),
     SubResp("http", 200, "", "obj",
             SubResult(TRUE, Undef, Undef, UrlA, Undef, Undef, Undef)),
     SubResp("http", 200, "", "obj",
             SubResult(TRUE, "T1", "CREATED", Undef, Undef, Undef, Undef))}
ConcPollResponses ==
    {PollResp("http", 404, "bad", NoData),
     PollResp("http", 200, "data", PollData("IN_PROGRESS", FALSE, << >>, Undef, Undef)),
     PollResp("http", 200, "data", PollData("COMPLETED", FALSE, << >>, UrlB, Undef))}

\* the poller's variables before pollFreepikTask is called
PollReset ==
    /\ taskId' = Undef
    /\ attempt' = 0
    /\ working' = Null
    /\ candidates' = <<>>
    /\ ci' = 1
    /\ gets' = 0
    /\ sleeps' = 0
    /\ lastUrl' = Undef
    /\ resp' = NoResp
    /\ pinnedAt' = -1
    /\ sawTerminal' = FALSE
    /\ pollOutcome' = Next0

Init ==
    /\ apiKey \in ApiKeys
    /\ served = 0
    /\ pc = "idle"
    /\ req = Body(Undef, Undef)
    /\ posts = 0
    /\ timer = FALSE
    /\ aborted = FALSE
    /\ hdr = 0
    /\ subResp = NoSubResp
    /\ pollCalls = 0
    /\ taskId = Undef
    /\ attempt = 0
    /\ working = Null
    /\ candidates = <<>>
    /\ ci = 1
    /\ gets = 0
    /\ sleeps = 0
    /\ lastUrl = Undef
    /\ resp = NoResp
    /\ pinnedAt = -1
    /\ sawTerminal = FALSE
    /\ pollOutcome = Next0
    /\ response = NoResponse
    /\ sent = 0
    /\ hs = [i \in Requests |-> NewHandler]
    /\ frames = [i \in Requests |-> NoFrame]
    /\ actor = 0

(***************************************************************************)
(* The actions.                                                            *)
(***************************************************************************)
\* lines 75-96: a request arrives; the handler runs to its first await.
\* Here the client sends a request when the one before it is answered;
\* requests in flight at the same time are the subject of SpecConc.
Receive(body) ==
    /\ pc = "idle"
    /\ UNCHANGED concVars
    /\ served < MaxRequests
    /\ served' = served + 1
    /\ req' = body
    /\ subResp' = NoSubResp
    /\ pollCalls' = 0
    /\ aborted' = FALSE
    /\ hdr' = 0
    /\ PollReset
    /\ LET v == Validate(apiKey, body)
       IN  IF v.kind = "respond"
           THEN /\ response' = v.response
                /\ sent' = 1
                /\ posts' = 0
                /\ timer' = FALSE
                /\ pc' = "idle"
           ELSE /\ response' = NoResponse
                /\ sent' = 0
                /\ posts' = 1
                /\ timer' = TRUE
                /\ pc' = "post"
    /\ UNCHANGED apiKey

\* lines 87, 122-125: the submission fetch rejects before the timer fires;
\* the catch answers and the timer stays armed
SubmitFails(sr) ==
    /\ pc = "post"
    /\ UNCHANGED concVars
    /\ subResp' = sr
    /\ response' = ClassifySubmit(sr).response
    /\ sent' = sent + 1
    /\ pc' = "idle"
    /\ UNCHANGED << apiKey, served, req, posts, timer, aborted, hdr, pollCalls >>
    /\ UNCHANGED pollVars

\* lines 87, 97-100, 112: the submission fetch resolves with status st before
\* the timer fires; the timer is cleared and the handler awaits the body
SubmitResponse(st) ==
    /\ pc = "post"
    /\ UNCHANGED concVars
    /\ timer' = FALSE
    /\ hdr' = st
    /\ pc' = "body"
    /\ UNCHANGED << apiKey, served, req, posts, aborted, subResp, pollCalls, response,
                    sent >>
    /\ UNCHANGED pollVars

\* lines 100-121, 122-125: the body of the submission response arrives, or
\* its stream fails; the handler answers or calls the poller, which runs to
\* its first await
SubmitBody(sr) ==
    /\ pc = "body"
    /\ UNCHANGED concVars
    /\ sr.kind \in {"http", "bodyerr"}
    /\ sr.status = hdr
    /\ hdr' = 0
    /\ subResp' = sr
    /\ LET c == ClassifySubmit(sr)
       IN  IF c.kind = "poll"
           THEN /\ pollCalls' = pollCalls + 1
                /\ taskId' = c.taskId
                /\ candidates' = Candidates(Null, c.taskId)
                /\ pc' = "fetch"
                /\ UNCHANGED << response, sent >>
           ELSE /\ response' = c.response
                /\ sent' = sent + 1
                /\ pc' = "idle"
                /\ UNCHANGED << pollCalls, taskId, candidates >>
    /\ UNCHANGED << apiKey, served, req, posts, timer, attempt, working, ci, gets,
                    sleeps, lastUrl, resp, pinnedAt, sawTerminal, pollOutcome, aborted >>

\* the mutant of SubmitTimeout: the signal is not passed to the fetch, so
\* the abort does not end the call in flight
SubmitTimeoutNoAbort ==
    /\ timer
    /\ UNCHANGED concVars
    /\ timer' = FALSE
    /\ aborted' = TRUE
    /\ UNCHANGED << apiKey, served, pc, req, posts, hdr, subResp, pollCalls, response, sent,
                    taskId, attempt, working, candidates, ci, gets, sleeps, lastUrl,
                    resp, pinnedAt, sawTerminal, pollOutcome >>

\* lines 85, 87, 122-125: the timer fires and aborts the controller; a fetch
\* still in flight rejects with an AbortError, a settled one is not affected
SubmitTimeout ==
    /\ timer
    /\ UNCHANGED concVars
    /\ timer' = FALSE
    /\ aborted' = TRUE
    /\ IF pc = "post"
       THEN /\ response' = HandlerCatch(AbortMsg)
            /\ sent' = sent + 1
            /\ pc' = "idle"
       ELSE UNCHANGED << response, sent, pc >>
    /\ UNCHANGED << apiKey, served, req, posts, hdr, subResp, pollCalls >>
    /\ UNCHANGED pollVars

\* lines 45-67, 115-117, 122-125: the outcome r of the GET to the current
\* candidate is dealt with: the loop goes on, or what pollFreepikTask returns
\* or throws goes to the client
PollHandle(r) ==
    LET url == candidates[ci]
        t == TryCatch(r, working, url)
    IN  /\ lastUrl' = url
        /\ resp' = r
        /\ working' = t.working
        /\ pinnedAt' = IF ~Truthy(working) /\ Truthy(t.working) THEN attempt ELSE pinnedAt
        /\ sawTerminal' = (sawTerminal \/
                             (/\ r.kind = "http" /\ HttpOk(r.status) /\ r.json = "data"
                              /\ r.data.status \in SuccessStatuses \cup FailureStatuses))
        /\ IF t.out.kind = "next"
           THEN /\ ci' = ci + 1
                /\ pc' = IF ci + 1 > Len(candidates) THEN "sleep" ELSE "fetch"
                /\ UNCHANGED << pollOutcome, response, sent >>
           ELSE /\ pollOutcome' = t.out
                /\ response' = IF t.out.kind = "return"
                               THEN UrlResponse(t.out.v)
                               ELSE HandlerCatch(t.out.v)
                /\ sent' = sent + 1
                /\ pc' = "idle"
                /\ ci' = ci

\* lines 44-47, 66: the GET to the current candidate rejects or is answered
\* with a status that is not 2xx; no body is read
PollFetchFails(r) ==
    /\ pc = "fetch"
    /\ UNCHANGED concVars
    /\ gets' = gets + 1
    /\ PollHandle(r)
    /\ UNCHANGED << apiKey, served, req, posts, timer, subResp, pollCalls, taskId,
                    attempt, candidates, sleeps, aborted, hdr >>

\* lines 44-49: the GET to the current candidate is answered with the 2xx
\* status st; the poller awaits the body
PollFetch(st) ==
    /\ pc = "fetch"
    /\ UNCHANGED concVars
    /\ gets' = gets + 1
    /\ hdr' = st
    /\ pc' = "pbody"
    /\ UNCHANGED << apiKey, served, req, posts, timer, subResp, pollCalls, taskId,
                    attempt, working, candidates, ci, sleeps, lastUrl, resp, pinnedAt,
                    sawTerminal, pollOutcome, response, sent, aborted >>

\* lines 49-67, 115-117, 122-125: the body of the status response arrives, or
\* its stream fails
PollBody(r) ==
    /\ pc = "pbody"
    /\ UNCHANGED concVars
    /\ r.kind \in {"http", "bodyerr"}
    /\ r.status = hdr
    /\ hdr' = 0
    /\ PollHandle(r)
    /\ UNCHANGED << apiKey, served, req, posts, timer, subResp, pollCalls, taskId,
                    attempt, candidates, sleeps, aborted, gets >>

\* lines 69-72, 40-41, 122-125: the sleep ends; the next round starts or the
\* attempts are exhausted
PollSleep ==
    /\ pc = "sleep"
    /\ UNCHANGED concVars
    /\ sleeps' = sleeps + 1
    /\ attempt' = attempt + 1
    /\ IF LoopContinues(attempt + 1)
       THEN /\ candidates' = Candidates(working, taskId)
            /\ ci' = 1
            /\ pc' = "fetch"
            /\ UNCHANGED << pollOutcome, response, sent >>
       ELSE /\ pollOutcome' = Throw(PollTimeoutMsg)
            /\ response' = HandlerCatch(PollTimeoutMsg)
            /\ sent' = sent + 1
            /\ pc' = "idle"
            /\ UNCHANGED << candidates, ci >>
    /\ UNCHANGED << apiKey, served, req, posts, timer, subResp, pollCalls, taskId,
                    working, gets, lastUrl, resp, pinnedAt, sawTerminal, aborted, hdr >>

Next ==
    \/ \E body \in Bodies : Receive(body)
    \/ \E sr \in SubmitRejections : SubmitFails(sr)
    \/ \E st \in SubmitStatuses : SubmitResponse(st)
    \/ \E sr \in SubResponses : SubmitBody(sr)
    \/ SubmitTimeout
    \/ \E r \in PollFailures : PollFetchFails(r)
    \/ \E st \in PollOkStatuses : PollFetch(st)
    \/ \E r \in PollResponses : PollBody(r)
    \/ PollSleep

Spec == Init /\ [][Next]_vars

\* The handler's own steps are taken when they can be: a timer that is armed
\* fires and a sleep ends.  Nothing makes the provider answer a call or
\* complete a body.
SpecFair == Init /\ [][Next]_vars /\ WF_vars(SubmitTimeout) /\ WF_vars(PollSleep)

(***************************************************************************)
(* The extraction alone: the poller has just been called for task T1, its  *)
(* first status GET is answered 200 and the body that follows is a         *)
(* terminal success of any shape.                                          *)
(***************************************************************************)
InitExtract ==
    /\ apiKey = "fpk-secret"
    /\ served = 1
    /\ pc = "fetch"
    /\ req = Body("a cat", Undef)
    /\ posts = 1
    /\ timer = FALSE
    /\ aborted = FALSE
    /\ hdr = 0
    /\ subResp = SubResp("http", 200, "", "obj",
                         SubResult(TRUE, "T1", "CREATED", Undef, Undef, Undef, Undef))
    /\ pollCalls = 1
    /\ taskId = "T1"
    /\ attempt = 0
    /\ working = Null
    /\ candidates = Candidates(Null, "T1")
    /\ ci = 1
    /\ gets = 0
    /\ sleeps = 0
    /\ lastUrl = Undef
    /\ resp = NoResp
    /\ pinnedAt = -1
    /\ sawTerminal = FALSE
    /\ pollOutcome = Next0
    /\ response = NoResponse
    /\ sent = 0
    /\ hs = [i \in Requests |-> NewHandler]
    /\ frames = [i \in Requests |-> NoFrame]
    /\ actor = 0

FirstFetch == gets = 0 /\ PollFetch(200)
FirstBody ==
    /\ attempt = 0
    /\ ci = 1
    /\ \E d \in AllSuccessDatas : PollBody(PollResp("http", 200, "data", d))

SpecExtract == InitExtract /\ [][FirstFetch \/ FirstBody]_vars

(***************************************************************************)
(* The handlers of the requests in Requests, interleaved at their awaits.  *)
(* Each action is one handler running from one await to the next.          *)
(***************************************************************************)
Step(i, h, f) ==
    /\ hs' = [hs EXCEPT ![i] = h]
    /\ frames' = [frames EXCEPT ![FrameOf(i)] = f]
    /\ actor' = i
    /\ UNCHANGED << apiKey, served, pc, req, posts, timer, aborted, hdr, subResp,
                    pollCalls, taskId, attempt, working, candidates, ci, gets, sleeps, lastUrl,
                    resp, pinnedAt, sawTerminal, pollOutcome, response, sent >>

\* lines 75-96
ConcReceive(i, body) ==
    /\ hs[i].pc = "new"
    /\ LET v == Validate(apiKey, body)
           log == Append(hs[i].log, LogBody(body))
       IN  Step(i,
                IF v.kind = "respond"
                THEN [hs[i] EXCEPT !.pc = "done", !.response = v.response, !.sent = 1,
                                   !.log = log]
                ELSE [hs[i] EXCEPT !.pc = "post", !.timer = TRUE, !.log = log],
                frames[FrameOf(i)])

\* lines 87, 122-125
ConcSubmitFails(i, sr) ==
    /\ hs[i].pc = "post"
    /\ Step(i,
            [hs[i] EXCEPT !.pc = "done", !.response = ClassifySubmit(sr).response,
                          !.sent = @ + 1, !.log = Append(@, LogSub(sr))],
            frames[FrameOf(i)])

\* lines 87, 97-100, 112
ConcSubmitResponse(i, st) ==
    /\ hs[i].pc = "post"
    /\ Step(i,
            [hs[i] EXCEPT !.pc = "body", !.timer = FALSE, !.hdr = st,
                          !.log = Append(@, LogStatus("post answered", st))],
            frames[FrameOf(i)])

\* lines 100-121, 122-125
ConcSubmitBody(i, sr) ==
    /\ hs[i].pc = "body"
    /\ sr.kind \in {"http", "bodyerr"}
    /\ sr.status = hs[i].hdr
    /\ LET c == ClassifySubmit(sr)
           h == [hs[i] EXCEPT !.hdr = 0, !.log = Append(@, LogSub(sr))]
       IN  IF c.kind = "poll"
           THEN Step(i, [h EXCEPT !.pc = "fetch"], NewFrame(c.taskId))
           ELSE Step(i, [h EXCEPT !.pc = "done", !.response = c.response,
                                  !.sent = @ + 1],
                     frames[FrameOf(i)])

\* lines 85, 87, 122-125
ConcSubmitTimeout(i) ==
    /\ hs[i].timer
    /\ LET h == [hs[i] EXCEPT !.timer = FALSE, !.log = Append(@, LogTimer)]
       IN  Step(i,
                IF hs[i].pc = "post"
                THEN [h EXCEPT !.pc = "done", !.response = HandlerCatch(AbortMsg),
                               !.sent = @ + 1]
                ELSE h,
                frames[FrameOf(i)])

\* lines 45-67, 115-117, 122-125: request i deals with the outcome r of its
\* GET; h is its handler with the log brought up to date
ConcPollHandle(i, h, r) ==
    LET f == frames[FrameOf(i)]
        t == TryCatch(r, f.working, f.candidates[f.ci])
    IN  IF t.out.kind = "next"
        THEN Step(i,
                  [h EXCEPT !.pc = IF f.ci + 1 > Len(f.candidates)
                                   THEN "sleep" ELSE "fetch"],
                  [f EXCEPT !.working = t.working, !.ci = @ + 1])
        ELSE Step(i,
                  [h EXCEPT !.pc = "done", !.sent = @ + 1,
                            !.response = IF t.out.kind = "return"
                                         THEN UrlResponse(t.out.v)
                                         ELSE HandlerCatch(t.out.v)],
                  [f EXCEPT !.working = t.working])

\* lines 44-47, 66
ConcPollFetchFails(i, r) ==
    /\ hs[i].pc = "fetch"
    /\ ConcPollHandle(i, [hs[i] EXCEPT !.log = Append(@, LogPoll(r))], r)

\* lines 44-49
ConcPollFetch(i, st) ==
    /\ hs[i].pc = "fetch"
    /\ Step(i,
            [hs[i] EXCEPT !.pc = "pbody", !.hdr = st,
                          !.log = Append(@, LogStatus("get answered", st))],
            frames[FrameOf(i)])

\* lines 49-67, 115-117, 122-125
ConcPollBody(i, r) ==
    /\ hs[i].pc = "pbody"
    /\ r.kind \in {"http", "bodyerr"}
    /\ r.status = hs[i].hdr
    /\ ConcPollHandle(i, [hs[i] EXCEPT !.hdr = 0, !.log = Append(@, LogPoll(r))], r)

\* lines 69-72, 40-41, 122-125
ConcPollSleep(i) ==
    /\ hs[i].pc = "sleep"
    /\ LET f == frames[FrameOf(i)]
           h == [hs[i] EXCEPT !.log = Append(@, LogSleep)]
       IN  IF LoopContinues(f.attempt + 1)
           THEN Step(i, [h EXCEPT !.pc = "fetch"],
                     [f EXCEPT !.attempt = @ + 1, !.ci = 1,
                               !.candidates = Candidates(f.working, f.taskId)])
           ELSE Step(i,
                     [h EXCEPT !.pc = "done", !.sent = @ + 1,
                               !.response = HandlerCatch(PollTimeoutMsg)],
                     [f EXCEPT !.attempt = @ + 1])

NextConc ==
    \E i \in Requests :
        \/ \E body \in ConcBodies : ConcReceive(i, body)
        \/ \E sr \in ConcSubResponses : sr.kind = "neterr" /\ ConcSubmitFails(i, sr)
        \/ \E sr \in ConcSubResponses : sr.kind # "neterr" /\ ConcSubmitResponse(i, sr.status)
        \/ \E sr \in ConcSubResponses : ConcSubmitBody(i, sr)
        \/ ConcSubmitTimeout(i)
        \/ \E r \in ConcPollResponses : ~HttpOk(r.status) /\ ConcPollFetchFails(i, r)
        \/ \E r \in ConcPollResponses : HttpOk(r.status) /\ ConcPollFetch(i, r.status)
        \/ \E r \in ConcPollResponses : ConcPollBody(i, r)
        \/ ConcPollSleep(i)

SpecConc == Init /\ [][NextConc]_vars

(***************************************************************************)
(* The claims.                                                             *)
(***************************************************************************)
\* the status GETs whose outcome was dealt with, and the step that deals
\* with one (resp' is then its outcome and lastUrl' its candidate)
HandledGets == gets - (IF pc = "pbody" THEN 1 ELSE 0)
GetHandled == HandledGets' = HandledGets + 1

\* the last status response carries a status of S
Carries(S) ==
    /\ gets > 0
    /\ resp.kind = "http"
    /\ HttpOk(resp.status)
    /\ resp.json = "data"
    /\ resp.data.status \in S

\* C1 (as claimed): a status response that carries FAILED or ERROR ends the
\* poll session at once with the task-failed error: it is the last GET, no
\* sleep follows, and the error goes to the client.
C1_FailedEndsSession ==
    Carries(FailureStatuses) =>
        /\ pollOutcome = Throw(TaskFailed(resp.data.status))
        /\ response = HandlerCatch(TaskFailed(resp.data.status))
        /\ pc = "idle"

\* C2: while no status response has carried a terminal status, the session
\* returns no value, runs no round beyond maxAttempts, and ends only by the
\* poll-timeout error, raised after exactly maxAttempts rounds and sleeps.
C2_TimeoutAfterMaxAttempts ==
    (pollCalls = 1 /\ ~sawTerminal) =>
        /\ pollOutcome.kind # "return"
        /\ attempt <= MaxAttempts
        /\ pc \in {"fetch", "pbody", "sleep"} => attempt < MaxAttempts /\ pollOutcome = Next0
        /\ pc = "idle" =>
              /\ pollOutcome = Throw(PollTimeoutMsg)
              /\ response = HandlerCatch(PollTimeoutMsg)
              /\ attempt = MaxAttempts
              /\ sleeps = MaxAttempts
              /\ gets >= MaxAttempts

C2_Witness ==
    /\ pollOutcome = Throw(PollTimeoutMsg)
    /\ ~sawTerminal
    /\ Carries({"IN_PROGRESS"})
    /\ gets = MaxAttempts + 2
    /\ sleeps = MaxAttempts

\* C3: once working is set it keeps its value for the rest of the session,
\* and every later round issues exactly one GET, to the pinned candidate:
\* the rounds up to the pinning one probe all three candidates, each later
\* one adds a single GET.
C3_PinState ==
    (pc \in {"fetch", "pbody", "sleep"} /\ Truthy(working) /\ attempt > pinnedAt) =>
        /\ candidates = <<working>>
        /\ gets = Len(Endpoints(taskId)) * (pinnedAt + 1) + (attempt - pinnedAt - 1)
                  + (IF pc = "fetch" THEN 0 ELSE 1)
        /\ pc \in {"fetch", "pbody"} => ci = 1
        /\ pc = "sleep" => ci = 2 /\ lastUrl = working
C3_Pinning ==
    /\ []C3_PinState
    /\ [][(Truthy(working) /\ pc # "idle") =>
            /\ working' = working
            /\ (gets' # gets /\ attempt > pinnedAt) => candidates[ci] = working
            /\ (GetHandled /\ attempt > pinnedAt) => lastUrl' = working]_vars

C3_Witness ==
    /\ pc = "sleep"
    /\ pinnedAt = 0
    /\ attempt = 2
    /\ working = Endpoints(taskId)[2]
    /\ lastUrl = working
    /\ resp.kind = "neterr"
    /\ gets = 5

\* the last status response is a failure of the candidate: the fetch
\* rejected or the status is not 2xx
CandidateFailed(r) == r.kind = "neterr" \/ (r.kind = "http" /\ ~HttpOk(r.status))

\* the URL of a status payload with status SUCCESS and a URL in it
SuccessUrl(r) ==
    IF r.kind = "http" /\ HttpOk(r.status) /\ r.json = "data" /\ r.data.status = "SUCCESS"
    THEN IF r.data.hasGenerated /\ Len(r.data.generated) > 0
         THEN IF r.data.generated[1].t = "object" THEN r.data.generated[1].url ELSE Undef
         ELSE r.data.url
    ELSE Undef

\* C4: a GET that fails (network error or non-2xx) never ends the session
\* and sends nothing to the client: the loop goes on to the next candidate or
\* to the sleep before the next round.  And when the first candidate has just
\* failed with a network error and the second answers SUCCESS with a URL, the
\* session returns that URL in that round.
C4_CandidateFailureNotFatal ==
    [][GetHandled =>
        /\ CandidateFailed(resp') =>
              /\ pollOutcome' = Next0
              /\ sent' = sent
              /\ response' = response
              /\ attempt' = attempt
              /\ \/ pc' = "fetch" /\ ci' = ci + 1 /\ ci' <= Len(candidates')
                 \/ pc' = "sleep" /\ ci = Len(candidates)
        /\ (/\ gets > 0
            /\ resp.kind = "neterr"
            /\ lastUrl = Endpoints(taskId)[1]
            /\ lastUrl' = Endpoints(taskId)[2]
            /\ Truthy(SuccessUrl(resp')) /\ IsString(SuccessUrl(resp'))) =>
              /\ pollOutcome' = Return(SuccessUrl(resp'))
              /\ response' = UrlResponse(SuccessUrl(resp'))
              /\ attempt' = attempt
              /\ pc' = "idle"]_vars

C4_Witness ==
    /\ attempt = 2
    /\ pinnedAt = 2
    /\ gets = 8
    /\ lastUrl = Endpoints(taskId)[2]
    /\ working = lastUrl
    /\ resp.data.status = "SUCCESS"
    /\ resp.data.url = UrlA
    /\ pollOutcome = Return(UrlA)
    /\ response = UrlResponse(UrlA)

\* C5 (as claimed): a status response that carries COMPLETED or SUCCESS ends
\* the session successfully in that round, whatever the artifact's shape: a
\* value (a URL or null) is returned and sent, nothing is raised, and no
\* further GET or sleep follows.
C5_SuccessEndsSession ==
    Carries(SuccessStatuses) =>
        /\ pollOutcome.kind = "return"
        /\ response = UrlResponse(pollOutcome.v)
        /\ pc = "idle"

\* the submission response is a 2xx one that carries a task id with status CREATED
AsyncSubmission ==
    /\ subResp.kind = "http"
    /\ HttpOk(subResp.status)
    /\ subResp.json = "obj"
    /\ subResp.result.hasData
    /\ subResp.result.task_id \in TaskIds
    /\ subResp.result.status = "CREATED"

\* C6: after a 2xx submission response with a task id and status CREATED the
\* poller has been called exactly once, with that task id; and when its first
\* GET, to the first candidate, is answered COMPLETED with generated[0].url =
\* U, the client gets {url: U} and no other GET is made.
C6_AsyncHandOff ==
    AsyncSubmission =>
        /\ pollCalls = 1
        /\ taskId = subResp.result.task_id
        /\ posts = 1
        /\ (/\ gets >= 1
            /\ Carries({"COMPLETED"})
            /\ lastUrl = Endpoints(subResp.result.task_id)[1]
            /\ attempt = 0
            /\ Len(resp.data.generated) > 0
            /\ resp.data.generated[1].t = "object"
            /\ Truthy(resp.data.generated[1].url)
            /\ IsString(resp.data.generated[1].url)) =>
              /\ gets = 1
              /\ pc = "idle"
              /\ sent = 1
              /\ response = UrlResponse(resp.data.generated[1].url)

C6_Witness ==
    /\ AsyncSubmission
    /\ subResp.result.task_id = "T2"
    /\ taskId = "T2"
    /\ gets = 1
    /\ Carries({"COMPLETED"})
    /\ resp.data.generated = <<ElemObj(UrlA, Undef, Undef, Undef)>>
    /\ response = UrlResponse(UrlA)

\* the first of the values that is not empty (undefined, null or ""), else null
FirstNonEmpty(vs) ==
    IF \E k \in 1..Len(vs) : Truthy(vs[k])
    THEN vs[CHOOSE k \in 1..Len(vs) : Truthy(vs[k]) /\ \A j \in 1..(k - 1) : ~Truthy(vs[j])]
    ELSE Null

\* the value the preference order names for the payload d
Preferred(d) ==
    IF d.hasGenerated /\ Len(d.generated) > 0
    THEN LET e == d.generated[1]
             f == FirstNonEmpty(<<e.url, e.image_url, e.imageUrl, e.src>>)
         IN  IF f # Null THEN f
             ELSE IF e.t = "string" THEN e.s ELSE Null
    ELSE FirstNonEmpty(<<d.url, d.image_url>>)

\* C7: the value returned on a terminal success is the one the preference
\* order names: of a non-empty generated list the first non-empty of url,
\* image_url, imageUrl, src of its first element, else the element when it is
\* a string, else null, whatever the top-level fields; without such a list the
\* top-level url, else the top-level image_url, else null.
C7_ExtractionOrder ==
    (Carries(SuccessStatuses) /\ pollOutcome.kind = "return") =>
        /\ pollOutcome.v = Preferred(resp.data)
        /\ response = UrlResponse(Preferred(resp.data))

C7_Witness ==
    /\ Carries(SuccessStatuses)
    /\ Len(resp.data.generated) > 0
    /\ resp.data.generated[1].t = "object"
    /\ resp.data.generated[1].url = EmptyStr
    /\ resp.data.generated[1].image_url = UrlB
    /\ resp.data.generated[1].src = UrlA
    /\ resp.data.url = UrlA
    /\ pollOutcome = Return(UrlB)

\* outbound provider calls made for the current request
OutboundCalls == posts + gets

\* C8: a request whose prompt is missing or empty gets a client error (400)
\* and no outbound provider call is made for it.
C8_MissingPromptNoCall ==
    (served > 0 /\ ~Truthy(req.prompt)) =>
        /\ pc = "idle"
        /\ sent = 1
        /\ response.code = 400
        /\ response.error = IF Truthy(apiKey) THEN PromptRequiredMsg ELSE KeyMissingMsg
        /\ ~response.hasUrl
        /\ OutboundCalls = 0

C8_Witness ==
    /\ served > 0
    /\ Truthy(apiKey)
    /\ req.prompt = EmptyStr
    /\ response = ErrorResponse(400, PromptRequiredMsg)
    /\ OutboundCalls = 0

\* C9: without the credential every request, whatever its body, ends with
\* the configuration error and no outbound call, and the handler is back to
\* idle, where the next request is received.
C9_NoKeyFailsFast ==
    ~Truthy(apiKey) =>
        /\ pc = "idle"
        /\ served > 0 =>
              /\ response = ErrorResponse(400, KeyMissingMsg)
              /\ sent = 1
              /\ OutboundCalls = 0
        /\ served < MaxRequests => ENABLED (\E body \in Bodies : Receive(body))

C9_Witness ==
    /\ apiKey = Undef
    /\ served >= 2
    /\ req.prompt = "a cat"
    /\ response = ErrorResponse(400, KeyMissingMsg)

\* C10 (as claimed): a submission response with status 429, whatever its body, gives the
\* client the quota error (HTTP 429, quota_exceeded = true); the poller is not
\* called and no other error is sent instead.
C10_QuotaError ==
    (subResp.kind \in {"http", "bodyerr"} /\ subResp.status = 429) =>
        /\ response = Response(429, FALSE, Undef, QuotaMsg, TRUE)
        /\ sent = 1
        /\ pc = "idle"
        /\ pollCalls = 0
        /\ gets = 0

\* C11: a request gets exactly one response, and it is either a result
\* {url} (a URL or null) or an error payload, never both: nothing is sent
\* while the handler runs, one response has been sent when it is done, and
\* no step sends a second one.
C11_OneOutcomeState ==
    /\ sent <= 1
    /\ pc # "idle" => sent = 0 /\ response = NoResponse
    /\ (pc = "idle" /\ served > 0) =>
          /\ sent = 1
          /\ response.code \in {200, 400, 429, 500, 502}
          /\ response.hasUrl # (response.error # Undef)
          /\ response.hasUrl => (response.code = 200 /\ response.url # Undef)
          /\ response.error # Undef => response.code # 200
C11_OneOutcome ==
    /\ []C11_OneOutcomeState
    /\ [][(sent = 1 /\ served' = served) => (sent' = 1 /\ response' = response)]_vars

C11_Witness ==
    /\ pc = "idle"
    /\ sent = 1
    /\ pollCalls = 1
    /\ gets > 1
    /\ response = UrlResponse(Null)
    /\ served = 2

\* C12 (as claimed): the two polling errors are told apart: a task whose
\* status check reported FAILED or ERROR does not end with the poll-timeout
\* response, and a task that exhausted its attempts without a terminal
\* status does not end with the task-failed response.
C12_FailureNotTimeout ==
    /\ Carries(FailureStatuses) => response # HandlerCatch(PollTimeoutMsg)
    /\ (pollCalls = 1 /\ ~sawTerminal) =>
          response.error \notin {TaskFailed(st) : st \in FailureStatuses}

\* C13 (as claimed): every request that is being handled gets its response,
\* also when the provider never answers a call or never completes a body.
C13_NoHang == (pc # "idle") ~> (pc = "idle")

\* a submission fetch that is not answered is always cut off by the timer
C13_PostIsBounded == (pc = "post") ~> (pc # "post")

\* C14: when the timer fires while the POST is in flight the request ends in
\* that step with the abort error (HTTP 500), and once the timer has fired
\* no submission response is taken: nothing is classified, polled on or
\* sent afterwards.  A timer left armed by a rejected fetch fires without effect.
C14_AbortedState ==
    aborted =>
        /\ pc = "idle"
        /\ pollCalls = 0
        /\ gets = 0
        /\ sent = 1
        /\ \/ subResp = NoSubResp /\ response = HandlerCatch(AbortMsg)
           \/ subResp.kind = "neterr" /\ response = HandlerCatch(FetchFailedMsg)
C14_TimeoutRace ==
    /\ []C14_AbortedState
    /\ [][/\ (pc = "post" /\ aborted') =>
                /\ response' = HandlerCatch(AbortMsg)
                /\ subResp' = NoSubResp
                /\ pc' = "idle"
          /\ (aborted /\ served' = served) =>
                /\ subResp' = subResp
                /\ response' = response
                /\ pollCalls' = pollCalls
                /\ gets' = gets]_vars

C14_Witness ==
    /\ aborted
    /\ posts = 1
    /\ subResp = NoSubResp
    /\ response = HandlerCatch(AbortMsg)
    /\ sent = 1

\* the submission response is a 2xx one whose body parsed (to null or to an
\* object) and is not an asynchronous task handle
SyncSubmission ==
    /\ subResp.kind = "http"
    /\ HttpOk(subResp.status)
    /\ subResp.json \in {"null", "obj"}
    /\ ~AsyncSubmission

\* the image_url fields the submission response contains
ImageUrls ==
    {DataField(subResp, "dimage_url"), TopField(subResp, "image_url")} \ {Undef}

\* C15 (as claimed): after a 2xx submission response that is not an
\* asynchronous task handle and contains an image_url field, the client
\* response is {url: V} with V that image_url value, and no status GET was
\* issued.
C15_ImageUrlRoundTrip ==
    (SyncSubmission /\ ImageUrls # {}) =>
        /\ \E v \in ImageUrls : response = UrlResponse(v)
        /\ pollCalls = 0
        /\ gets = 0

\* the submission response is a 2xx one with neither a task handle nor an
\* embedded url or image_url field, its body parsed or not
NeitherShape ==
    /\ subResp.kind = "http"
    /\ HttpOk(subResp.status)
    /\ ~AsyncSubmission
    /\ ImageUrls = {}
    /\ DataField(subResp, "durl") = Undef
    /\ TopField(subResp, "url") = Undef

\* C16 (as claimed): after every 2xx submission response with neither shape
\* the client response is {url: null}; there is no error and no status GET.
C16_NullResultAny ==
    NeitherShape =>
        /\ response = UrlResponse(Null)
        /\ pollCalls = 0
        /\ gets = 0

\* C16 (amended): after a 2xx submission response whose body parses as JSON
\* and has neither shape (a task id with a status other than CREATED
\* included), the client response is {url: null} with HTTP 200; there is no
\* error, the poller is not called and no status GET is issued.
C16_NullResult ==
    (NeitherShape /\ subResp.json \in {"null", "obj"}) =>
        /\ response = UrlResponse(Null)
        /\ response.code = 200
        /\ response.error = Undef
        /\ sent = 1
        /\ pc = "idle"
        /\ pollCalls = 0
        /\ gets = 0

C16_Witness ==
    /\ subResp.kind = "http"
    /\ subResp.status = 200
    /\ subResp.json = "obj"
    /\ subResp.result.hasData
    /\ subResp.result.task_id = "T1"
    /\ subResp.result.status = "IN_PROGRESS"
    /\ subResp.result.durl = Undef
    /\ response = UrlResponse(Null)
    /\ gets = 0

\* C18 (as claimed): after every submission response with a non-2xx status
\* other than 429, its body received or not, the client response is the
\* provider error (HTTP 502) that carries the status; no url is returned.
C18_ProviderErrorAny ==
    (/\ subResp.kind \in {"http", "bodyerr"}
     /\ ~HttpOk(subResp.status)
     /\ subResp.status # 429) =>
        /\ response.code = 502
        /\ ~response.hasUrl
        /\ pollCalls = 0

\* C18 (amended): after a submission response with a non-2xx status other
\* than 429 whose body was received, the client response is HTTP 502 with
\* the error "Freepik error <status>: <body>", the body in full; no url is
\* returned and the poller is not called.
C18_ProviderError ==
    (subResp.kind = "http" /\ ~HttpOk(subResp.status) /\ subResp.status # 429) =>
        /\ response =
              ErrorResponse(502, "Freepik error " \o ToString(subResp.status)
                                   \o ": " \o subResp.text)
        /\ ~response.hasUrl
        /\ ~response.quota_exceeded
        /\ sent = 1
        /\ pc = "idle"
        /\ pollCalls = 0
        /\ gets = 0

C18_Witness ==
    /\ subResp.kind = "http"
    /\ subResp.status = 500
    /\ subResp.text = LongBody
    /\ Len(subResp.text) > LogLimit
    /\ response.code = 502
    /\ response.error = "Freepik error 500: " \o LongBody

\* a 2xx status response without a recognizable status: the body does not
\* parse, or parses to something without a status field
NoStatus(r) ==
    /\ r.kind = "http"
    /\ HttpOk(r.status)
    /\ r.json # "data" \/ r.data.status = Undef

\* C19 (as claimed): a 2xx status response without a status field, or with
\* an unparseable body, never sets the pin: working stays null, and the next
\* round starts with the full candidate list.
C19_PinNeedsStatus ==
    [][(GetHandled /\ ~Truthy(working) /\ NoStatus(resp')) =>
          ~Truthy(working')]_vars

\* a status response whose body parsed to a payload (data && data.data)
Parseable(r) == r.kind = "http" /\ HttpOk(r.status) /\ r.json = "data"

\* the place of a candidate in the list of endpoints (0 when it is not one)
Place(url) ==
    IF \E i \in 1..Len(Endpoints(taskId)) : Endpoints(taskId)[i] = url
    THEN CHOOSE i \in 1..Len(Endpoints(taskId)) : Endpoints(taskId)[i] = url
    ELSE 0

\* C20: while working is null a GET sets it exactly when its payload is
\* parseable, to the candidate just fetched (so the pin is the first such
\* candidate of the round in list order), and a GET never changes a pin that
\* is set.  In the pinning round the full list stays in use: after a
\* parseable payload with a non-terminal status the next candidate of the
\* list is fetched.  So a value returned in the pinning round may come from
\* a candidate after the pinned one; in any other round it comes from the pin.
C20_PinRoundState ==
    /\ (pc # "idle" /\ Truthy(working) /\ attempt = pinnedAt) =>
          /\ candidates = Endpoints(taskId)
          /\ Place(working) >= 1
          /\ Place(working) <= Place(lastUrl)
    /\ (pollCalls = 1 /\ pollOutcome.kind = "return") =>
          /\ Truthy(working)
          /\ \/ lastUrl = working
             \/ pinnedAt = attempt /\ Place(working) < Place(lastUrl)
C20_PinRound ==
    /\ []C20_PinRoundState
    /\ [][GetHandled =>
            /\ ~Truthy(working) =>
                  working' = IF Parseable(resp') THEN lastUrl' ELSE working
            /\ Truthy(working) => working' = working
            /\ (/\ Truthy(working')
                /\ pinnedAt' = attempt
                /\ Parseable(resp')
                /\ resp'.data.status \notin SuccessStatuses \cup FailureStatuses
                /\ ci < Len(candidates)) =>
                  /\ pc' = "fetch"
                  /\ ci' = ci + 1
                  /\ candidates' = Endpoints(taskId)
                  /\ candidates'[ci'] # working']_vars

C20_Witness ==
    /\ pollOutcome.kind = "return"
    /\ pinnedAt = attempt
    /\ attempt = 1
    /\ working = Endpoints(taskId)[1]
    /\ lastUrl = Endpoints(taskId)[3]
    /\ response = UrlResponse(UrlA)
    /\ gets = 6

\* what request i holds: its handler's locals and its poller's locals
Locals(i) == << hs[i], frames[i] >>

\* C17: with requests interleaved in every way, a step of one request changes
\* nothing that another request holds (its pinned candidate, attempt counter,
\* loop position, timer, response), the credential is never written, and what
\* a request holds (its pin, its attempt counter, its outcome) is determined
\* by what that request itself was given: two requests that were given the
\* same body and the same answers to their own calls are in the same state,
\* whatever the other one did in between.
C17_OwnInputsOnly ==
    \A i, j \in Requests : hs[i].log = hs[j].log => Locals(i) = Locals(j)
C17_Independent ==
    /\ []C17_OwnInputsOnly
    /\ [][/\ apiKey' = apiKey
          /\ \A j \in Requests : j # actor' => Locals(j)' = Locals(j)]_vars

C17_Witness ==
    /\ actor = 2
    /\ hs[1].pc = "sleep"
    /\ hs[2].pc = "done"
    /\ frames[1].taskId = frames[2].taskId
    /\ frames[1].working = Endpoints("T1")[1]
    /\ frames[2].working = Endpoints("T1")[2]
    /\ frames[1].attempt = 1
    /\ frames[2].attempt = 0
    /\ hs[2].response = UrlResponse(UrlB)
    /\ hs[1].response = NoResponse

====
